---- MODULE Spec2Model ----
(***************************************************************************)
(* datadasher: two command-line query tools over movie tables.             *)
(*   src/datadasher.py          class MovieDB      (curated dataset)       *)
(*   src/extra/datascrapper.py  class MovieFilter  (broader dataset)       *)
(* Text is a tuple of one-character strings, so that parsing, formatting   *)
(* and case conversion are computed character by character.  A table cell  *)
(* is a tagged record: NaN (absent), Num(n), Str(text) or Date(d, m, y).   *)
(***************************************************************************)
EXTENDS Integers, Sequences, FiniteSets, TLC

VARIABLES pc, variant, file, df, args, view, sortArgs, sorted, out, saved,
          exitCode, diag, firstArgs, firstView, dateIn, dateOut

vars == <<pc, variant, file, df, args, view, sortArgs, sorted, out, saved,
          exitCode, diag, firstArgs, firstView, dateIn, dateOut>>

\* ------------------------------------------------------------------ cells

NaN == [k |-> "nan"]
Num(n) == [k |-> "num", n |-> n]
Str(s) == [k |-> "str", s |-> s]
Date(d, m, y) == [k |-> "date", d |-> d, m |-> m, y |-> y]
None == [k |-> "none"]

IsNaN(c) == c.k = "nan"

\* ------------------------------------------------------------- characters

DigitChars == <<"0", "1", "2", "3", "4", "5", "6", "7", "8", "9">>
LowerChars == <<"a", "b", "c", "d", "e", "f", "g", "h", "i", "j", "k", "l", "m",
                "n", "o", "p", "q", "r", "s", "t", "u", "v", "w", "x", "y", "z">>
UpperChars == <<"A", "B", "C", "D", "E", "F", "G", "H", "I", "J", "K", "L", "M",
                "N", "O", "P", "Q", "R", "S", "T", "U", "V", "W", "X", "Y", "Z">>

Range(f) == {f[i] : i \in DOMAIN f}
IndexOf(seq, c) == CHOOSE i \in DOMAIN seq : seq[i] = c

IsDigit(c) == c \in Range(DigitChars)
DigitVal(c) == IndexOf(DigitChars, c) - 1

\* str.upper() and str.lower(), one character
UpperChar(c) == IF c \in Range(LowerChars) THEN UpperChars[IndexOf(LowerChars, c)] ELSE c
LowerChar(c) == IF c \in Range(UpperChars) THEN LowerChars[IndexOf(UpperChars, c)] ELSE c

\* str.upper()
Upper(s) == [i \in DOMAIN s |-> UpperChar(s[i])]
\* str.lower()
Lower(s) == [i \in DOMAIN s |-> LowerChar(s[i])]

\* int(text) of a run of decimal digits
RECURSIVE ParseNat(_)
ParseNat(s) ==
    IF Len(s) = 0 THEN 0
    ELSE 10 * ParseNat(SubSeq(s, 1, Len(s) - 1)) + DigitVal(s[Len(s)])

\* str(n) for n >= 0
RECURSIVE NatStr(_)
NatStr(n) ==
    IF n < 10 THEN <<DigitChars[n + 1]>>
    ELSE NatStr(n \div 10) \o <<DigitChars[(n % 10) + 1]>>

\* "%02d" % n
Pad2(n) == IF n < 10 THEN <<"0">> \o NatStr(n) ELSE NatStr(n)

AllDigits(s) == Len(s) > 0 /\ \A i \in DOMAIN s : IsDigit(s[i])

\* s[i:].startswith(p), 1-based i
StartsWithAt(s, i, p) ==
    /\ i + Len(p) - 1 <= Len(s)
    /\ \A j \in DOMAIN p : s[i + j - 1] = p[j]

\* Length of the maximal run of digits of s starting at position i.
RECURSIVE DigitRun(_, _)
DigitRun(s, i) ==
    IF i <= Len(s) /\ IsDigit(s[i]) THEN 1 + DigitRun(s, i + 1) ELSE 0

\* Length of the maximal run of blanks of s starting at position i.
RECURSIVE BlankRun(_, _)
BlankRun(s, i) ==
    IF i <= Len(s) /\ s[i] = " " THEN 1 + BlankRun(s, i + 1) ELSE 0

\* str.strip()
RECURSIVE Strip(_)
Strip(s) ==
    IF Len(s) = 0 THEN s
    ELSE IF s[1] = " " THEN Strip(Tail(s))
    ELSE IF s[Len(s)] = " " THEN Strip(SubSeq(s, 1, Len(s) - 1))
    ELSE s

\* ------------------------------------------------------- the calendar

MonthNames ==
  << <<"j","a","n","u","a","r","y">>,
     <<"f","e","b","r","u","a","r","y">>,
     <<"m","a","r","c","h">>,
     <<"a","p","r","i","l">>,
     <<"m","a","y">>,
     <<"j","u","n","e">>,
     <<"j","u","l","y">>,
     <<"a","u","g","u","s","t">>,
     <<"s","e","p","t","e","m","b","e","r">>,
     <<"o","c","t","o","b","e","r">>,
     <<"n","o","v","e","m","b","e","r">>,
     <<"d","e","c","e","m","b","e","r">> >>

\* %b: the first three letters of the month's name
MonthAbbrs == [m \in 1..12 |-> SubSeq(MonthNames[m], 1, 3)]

IsLeap(y) == (y % 4 = 0 /\ y % 100 # 0) \/ y % 400 = 0

DaysInMonth(m, y) ==
    IF m = 2 THEN (IF IsLeap(y) THEN 29 ELSE 28)
    ELSE IF m \in {4, 6, 9, 11} THEN 30 ELSE 31

\* datetime(y, m, d) raises ValueError outside these ranges
ValidDate(d, m, y) ==
    /\ y >= 1 /\ y <= 9999
    /\ m \in 1..12
    /\ d >= 1 /\ d <= DaysInMonth(m, y)

\* -------------------------------------------------- datetime.strptime

Fail == [ok |-> FALSE]

\* The parse state: next position in the text and the fields read so far.
Parsed(p, d, m, y) == [ok |-> TRUE, pos |-> p, d |-> d, m |-> m, y |-> y]

\* %d is the regex 3[0-1]|[1-2]\d|0[1-9]|[1-9]| [1-9]; in every format used here
\* it is followed by a literal that is not a digit, or by the end of the text.
DirDay(s, st) ==
    LET i == st.pos
        n == DigitRun(s, i)
        v == ParseNat(SubSeq(s, i, i + n - 1))
    IN  IF n \in {1, 2} /\ v >= 1 /\ v <= 31 THEN [st EXCEPT !.pos = i + n, !.d = v]
        ELSE IF /\ n = 0 /\ i <= Len(s) /\ s[i] = " "
                /\ DigitRun(s, i + 1) = 1 /\ s[i + 1] # "0"
             THEN [st EXCEPT !.pos = i + 2, !.d = DigitVal(s[i + 1])]
        ELSE Fail

\* %m is the regex 1[0-2]|0[1-9]|[1-9]
DirMonth(s, st) ==
    LET i == st.pos
        n == DigitRun(s, i)
        v == ParseNat(SubSeq(s, i, i + n - 1))
    IN  IF n \in {1, 2} /\ v >= 1 /\ v <= 12 THEN [st EXCEPT !.pos = i + n, !.m = v]
        ELSE Fail

\* %Y is the regex \d\d\d\d
DirYear(s, st) ==
    LET i == st.pos
        n == DigitRun(s, i)
    IN  IF n = 4 THEN [st EXCEPT !.pos = i + 4, !.y = ParseNat(SubSeq(s, i, i + 3))]
        ELSE Fail

\* %B and %b: a month name of the table, letter case ignored
DirName(s, st, names) ==
    LET i == st.pos
        hits == {m \in 1..12 : StartsWithAt(Lower(s), i, names[m])}
    IN  IF hits = {} THEN Fail
        ELSE LET m == CHOOSE h \in hits : TRUE
             IN  [st EXCEPT !.pos = i + Len(names[m]), !.m = m]

\* A blank of the format is the regex \s+; any other character is itself.
DirLiteral(s, st, c) ==
    LET i == st.pos
    IN  IF c = " "
        THEN (IF BlankRun(s, i) > 0 THEN [st EXCEPT !.pos = i + BlankRun(s, i)] ELSE Fail)
        ELSE (IF i <= Len(s) /\ s[i] = c THEN [st EXCEPT !.pos = i + 1] ELSE Fail)

Directive(s, st, tok) ==
    CASE tok = "%d" -> DirDay(s, st)
      [] tok = "%m" -> DirMonth(s, st)
      [] tok = "%Y" -> DirYear(s, st)
      [] tok = "%B" -> DirName(s, st, MonthNames)
      [] tok = "%b" -> DirName(s, st, MonthAbbrs)
      [] OTHER -> DirLiteral(s, st, tok)

RECURSIVE MatchFrom(_, _, _, _)
MatchFrom(s, fmt, k, st) ==
    IF ~st.ok THEN Fail
    ELSE IF k > Len(fmt) THEN st
    ELSE MatchFrom(s, fmt, k + 1, Directive(s, st, fmt[k]))

\* datetime.strptime(s, fmt): the date, or Fail where Python raises ValueError
\* (no match, unconverted data remains, or a day out of range for the month).
Strptime(s, fmt) ==
    LET st == MatchFrom(s, fmt, 1, Parsed(1, 1, 1, 1900))
    IN  IF st.ok /\ st.pos = Len(s) + 1 /\ ValidDate(st.d, st.m, st.y)
        THEN [ok |-> TRUE, d |-> st.d, m |-> st.m, y |-> st.y]
        ELSE Fail

\* dt.strftime('%d/%m/%Y')
Strftime(d, m, y) == Pad2(d) \o <<"/">> \o Pad2(m) \o <<"/">> \o NatStr(y)

FmtMonthDayYear == <<"%B", " ", "%d", ",", " ", "%Y">>
FmtAbbrDayYear == <<"%b", " ", "%d", ",", " ", "%Y">>
FmtDMY == <<"%d", "/", "%m", "/", "%Y">>
FmtMDY == <<"%m", "/", "%d", "/", "%Y">>
FmtISO == <<"%Y", "-", "%m", "-", "%d">>

\* ---------------------------------------------- MovieFilter.format_date

\* re.sub(r'\s*\([^)]*\)', '', s): position of the first ")" at or after i, or 0
RECURSIVE CloseParen(_, _)
CloseParen(s, i) ==
    IF i > Len(s) THEN 0
    ELSE IF s[i] = ")" THEN i
    ELSE CloseParen(s, i + 1)

RECURSIVE RemoveParens(_, _)
RemoveParens(s, i) ==
    IF i > Len(s) THEN <<>>
    ELSE LET b == BlankRun(s, i)
             open == i + b
             close == IF open <= Len(s) /\ s[open] = "(" THEN CloseParen(s, open + 1) ELSE 0
         IN  IF close > 0 THEN RemoveParens(s, close + 1)
             ELSE <<s[i]>> \o RemoveParens(s, i + 1)

NAText == <<"N", "/", "A">>

DateFormatsSwapped == <<FmtMonthDayYear, FmtAbbrDayYear, FmtMDY, FmtDMY, FmtISO>>

\* the tuple of formats tried, in order
DateFormats == <<FmtMonthDayYear, FmtAbbrDayYear, FmtDMY, FmtMDY, FmtISO>>

\* str(date_str) of a cell that is not NaN
CellText(c) == IF c.k = "num" THEN NatStr(c.n) ELSE c.s

RECURSIVE TryFormats(_, _, _)
TryFormats(part, k, original) ==
    IF k > Len(DateFormats) THEN original
    ELSE LET dt == Strptime(part, DateFormats[k])
         IN  IF dt.ok THEN Str(Strftime(dt.d, dt.m, dt.y))
             ELSE TryFormats(part, k + 1, original)

format_date(date_str) ==
    IF IsNaN(date_str) \/ date_str = Str(NAText) THEN Str(NAText)
    ELSE TryFormats(Strip(RemoveParens(CellText(date_str), 1)), 1, date_str)

\* ------------------------------------------------------ pandas.read_csv

\* A file is [status, cols, rows]: status "ok", "missing" (no such file) or
\* "garbled" (not parseable as delimited text); cols the header, in order;
\* rows the data lines, each a function from column name to its text.

\* Text that read_csv reads as a missing value (its default na_values).
NAValues == {<<>>, NAText, <<"N", "A">>, <<"N", "a", "N">>, <<"n", "a", "n">>,
             <<"n", "u", "l", "l">>}

IsNAText(t) == t \in NAValues

\* A column is inferred numeric when every value present is a number.
NumericCol(f, col) ==
    \A i \in DOMAIN f.rows : IsNAText(f.rows[i][col]) \/ AllDigits(f.rows[i][col])

RawCell(f, i, col) ==
    LET t == f.rows[i][col]
    IN  IF IsNAText(t) THEN NaN
        ELSE IF NumericCol(f, col) THEN Num(ParseNat(t))
        ELSE Str(t)

\* The dtype of a column: "int64" when every value is a number, "float64" when
\* some are missing and the rest are numbers (or all are missing), "object" (text)
\* otherwise and for a table without rows.
RawDtype(f, col) ==
    IF Len(f.rows) > 0 /\ NumericCol(f, col)
    THEN (IF \E i \in DOMAIN f.rows : IsNAText(f.rows[i][col]) THEN "float64" ELSE "int64")
    ELSE "object"

\* A frame is [cols, dt, rows]; a row is [idx, c]: its index label and cells.
read_csv(f) ==
    [cols |-> f.cols,
     dt |-> [col \in Range(f.cols) |-> RawDtype(f, col)],
     rows |-> [i \in DOMAIN f.rows |->
                 [idx |-> i - 1, c |-> [col \in Range(f.cols) |-> RawCell(f, i, col)]]]]

HasCol(d, col) == col \in Range(d.cols)

\* df[col] = values: the column is replaced in place, or appended when new;
\* a numeric column is float64 when a value is missing.
SetCol(d, col, dtype, Val(_)) ==
    [cols |-> IF HasCol(d, col) THEN d.cols ELSE Append(d.cols, col),
     dt |-> [x \in Range(d.cols) \cup {col} |->
               IF x # col THEN d.dt[x]
               ELSE IF dtype # "number" THEN dtype
               ELSE IF \E i \in DOMAIN d.rows : IsNaN(Val(d.rows[i])) THEN "float64"
               ELSE "int64"],
     rows |-> [i \in DOMAIN d.rows |->
                 [idx |-> d.rows[i].idx,
                  c |-> [x \in Range(d.cols) \cup {col} |->
                           IF x = col THEN Val(d.rows[i]) ELSE d.rows[i].c[x]]]]]

\* ------------------------------------------------------ MovieDB.__init__

\* pd.to_datetime(value, format='%d/%m/%Y'): a missing value is NaT; text that
\* the format does not read raises ValueError (errors='raise' is the default).
ToDatetimeOk(c) ==
    \/ IsNaN(c)
    \/ c.k = "str" /\ Strptime(c.s, FmtDMY).ok

ToDatetime(c) ==
    IF IsNaN(c) THEN NaN
    ELSE LET dt == Strptime(c.s, FmtDMY) IN Date(dt.d, dt.m, dt.y)

TWinter == <<"W", "i", "n", "t", "e", "r">>
TSpring == <<"S", "p", "r", "i", "n", "g">>
TSummer == <<"S", "u", "m", "m", "e", "r">>
TFall == <<"F", "a", "l", "l">>

SeasonByQuarter ==
    [m \in 1..12 |-> IF m <= 3 THEN TWinter ELSE IF m <= 6 THEN TSpring
                     ELSE IF m <= 9 THEN TSummer ELSE TFall]

\* the dict passed to .map()
SeasonMap ==
    (12 :> TWinter) @@ (1 :> TWinter) @@ (2 :> TWinter) @@
    (3 :> TSpring) @@ (4 :> TSpring) @@ (5 :> TSpring) @@
    (6 :> TSummer) @@ (7 :> TSummer) @@ (8 :> TSummer) @@
    (9 :> TFall) @@ (10 :> TFall) @@ (11 :> TFall)

\* .dt.month.map(SeasonMap) of one date cell
SeasonOf(c) ==
    IF IsNaN(c) THEN NaN
    ELSE IF c.m \in DOMAIN SeasonMap THEN Str(SeasonMap[c.m]) ELSE NaN

\* The outcome of the constructor: the frame, or the diagnostic it exits with.
MovieDBInit(f) ==
    IF f.status = "missing" THEN [ok |-> FALSE, diag |-> "not found"]
    ELSE IF f.status = "garbled" THEN [ok |-> FALSE, diag |-> "error loading data"]
    ELSE LET raw == read_csv(f)
         IN  IF ~HasCol(raw, "Date Released")
             THEN [ok |-> FALSE, diag |-> "error loading data"]
             ELSE IF \E i \in DOMAIN raw.rows : ~ToDatetimeOk(raw.rows[i].c["Date Released"])
             THEN [ok |-> FALSE, diag |-> "error loading data"]
             ELSE LET DateVal(r) == ToDatetime(r.c["Date Released"])
                      dated == SetCol(raw, "Date Released", "datetime", DateVal)
                      SeasonVal(r) == SeasonOf(r.c["Date Released"])
                  IN  [ok |-> TRUE, df |-> SetCol(dated, "Season", "object", SeasonVal)]

\* -------------------------------------------------- MovieFilter.__init__

NumericCols == <<"year", "budget", "gross", "votes", "score">>

\* pd.to_numeric(value, errors='coerce')
ToNumeric(c) ==
    IF c.k = "num" THEN c
    ELSE IF c.k = "str" /\ AllDigits(c.s) THEN Num(ParseNat(c.s))
    ELSE NaN

RECURSIVE CoerceNumeric(_, _)
CoerceNumeric(d, k) ==
    IF k > Len(NumericCols) THEN d
    ELSE LET col == NumericCols[k]
             Val(r) == ToNumeric(r.c[col])
         IN  CoerceNumeric(IF HasCol(d, col) THEN SetCol(d, col, "number", Val) ELSE d, k + 1)

\* the columns= mapping of rename()
Renamed(col) ==
    CASE col = "name" -> "Movie Title"
      [] col = "released" -> "Date Released"
      [] col = "genre" -> "Genre"
      [] col = "rating" -> "MPAA Rating"
      [] col = "gross" -> "Total Gross"
      [] col = "company" -> "Company"
      [] OTHER -> col

Rename(d) ==
    LET Old(new) == CHOOSE col \in Range(d.cols) : Renamed(col) = new
        news == {Renamed(col) : col \in Range(d.cols)}
    IN  [cols |-> [i \in DOMAIN d.cols |-> Renamed(d.cols[i])],
         dt |-> [new \in news |-> d.dt[Old(new)]],
         rows |-> [i \in DOMAIN d.rows |->
                     [idx |-> d.rows[i].idx,
                      c |-> [new \in news |-> d.rows[i].c[Old(new)]]]]]

MovieFilterInit(f) ==
    IF f.status = "missing" THEN [ok |-> FALSE, diag |-> "not found"]
    ELSE IF f.status = "garbled" THEN [ok |-> FALSE, diag |-> "traceback"]
    ELSE LET raw == read_csv(f)
             num == CoerceNumeric(raw, 1)
             RelVal(r) == format_date(r.c["released"])
             rel == IF HasCol(num, "released")
                    THEN SetCol(num, "released", "object", RelVal) ELSE num
         IN  [ok |-> TRUE, df |-> Rename(rel)]

\* ------------------------------------------------------- date texts

Capitalize(s) == [i \in DOMAIN s |-> IF i = 1 THEN UpperChar(s[i]) ELSE s[i]]

Country == <<" ", "(", "U", "S", ")">>

\* The shapes of date text of the two datasets, and one that no format reads.
DateText(shape, d, m, y) ==
    CASE shape = "B" -> Capitalize(MonthNames[m]) \o <<" ">> \o NatStr(d) \o <<",", " ">> \o NatStr(y)
      [] shape = "b" -> Capitalize(MonthAbbrs[m]) \o <<" ">> \o Pad2(d) \o <<",", " ">> \o NatStr(y)
      [] shape = "dmy" -> Pad2(d) \o <<"/">> \o Pad2(m) \o <<"/">> \o NatStr(y)
      [] shape = "mdy" -> NatStr(m) \o <<"/">> \o NatStr(d) \o <<"/">> \o NatStr(y)
      [] shape = "iso" -> NatStr(y) \o <<"-">> \o Pad2(m) \o <<"-">> \o Pad2(d)
      [] shape = "dot" -> Pad2(d) \o <<".">> \o Pad2(m) \o <<".">> \o NatStr(y)

\* ------------------------------------------------------------ filtering

\* Python truthiness of an optional argument: None, '' and 0 are false.
Truthy(a) ==
    CASE a.k = "none" -> FALSE
      [] a.k = "str" -> Len(a.s) > 0
      [] a.k = "num" -> a.n # 0

\* p in s
Contains(s, p) == \E i \in 1..(Len(s) - Len(p) + 1) : StartsWithAt(s, i, p)

\* Series.str.contains(pat, case=False, na=False), one cell; pat has no regex operators
StrContains(c, pat) == c.k = "str" /\ Contains(Lower(c.s), Lower(pat))

\* Series == text, one cell
EqText(c, text) == c.k = "str" /\ c.s = text

\* Series == n and Series >= n, one cell: a comparison with NaN is False
EqNum(c, n) == c.k = "num" /\ c.n = n
GeNum(c, n) == c.k = "num" /\ c.n >= n

\* .dt.year == n and .dt.year.between(lo, hi), one cell: NaT has no year
YearIs(c, n) == c.k = "date" /\ c.y = n
YearBetween(c, lo, hi) == c.k = "date" /\ lo <= c.y /\ c.y <= hi

Raised == [ok |-> FALSE]
Rows(rows) == [ok |-> TRUE, rows |-> rows]

\* result = result[mask]: one `if` of filter(); the mask may raise
Step(res, on, Raises(_), Keep(_)) ==
    IF ~res.ok \/ ~on THEN res
    ELSE IF Raises(res.rows) THEN Raised
    ELSE Rows(SelectSeq(res.rows, Keep))

\* The .str accessor raises AttributeError on a column that is not text, and
\* df[col] raises KeyError on a column that is not there.
NoStrColumn(d, col) == ~HasCol(d, col) \/ d.dt[col] # "object"

\* A text value compared with a float raises TypeError.
HasText(rows, col) == \E i \in DOMAIN rows : rows[i].c[col].k = "str"

Million == 1000000

\* float(min_gross) * 1_000_000
Threshold(min_gross) == min_gross * Million

\* MovieDB.filter
MovieDB_filter(d, a) ==
    LET s0 == Rows(d.rows)
        s1 == Step(s0, Truthy(a.genre),
                   LAMBDA rows : NoStrColumn(d, "Genre"),
                   LAMBDA r : StrContains(r.c["Genre"], a.genre.s))
        s2 == Step(s1, Truthy(a.season),
                   LAMBDA rows : FALSE,
                   LAMBDA r : EqText(r.c["Season"], a.season.s))
        s3 == Step(s2, Truthy(a.year),
                   LAMBDA rows : FALSE,
                   LAMBDA r : YearIs(r.c["Date Released"], a.year.n))
        s4 == Step(s3, Truthy(a.year_start) /\ Truthy(a.year_end),
                   LAMBDA rows : FALSE,
                   LAMBDA r : YearBetween(r.c["Date Released"], a.year_start.n, a.year_end.n))
        s5 == Step(s4, Truthy(a.rating),
                   LAMBDA rows : ~HasCol(d, "MPAA Rating"),
                   LAMBDA r : EqText(r.c["MPAA Rating"], Upper(a.rating.s)))
        s6 == Step(s5, Truthy(a.min_gross),
                   LAMBDA rows : ~HasCol(d, "Total Gross") \/ HasText(rows, "Total Gross"),
                   LAMBDA r : GeNum(r.c["Total Gross"], Threshold(a.min_gross.n)))
    IN  s6

\* one `if <arg> and <col> in result.columns` of MovieFilter.filter, text columns
StepContains(res, d, arg, col) ==
    Step(res, Truthy(arg) /\ HasCol(d, col),
         LAMBDA rows : NoStrColumn(d, col),
         LAMBDA r : StrContains(r.c[col], arg.s))

\* the same, for a numeric column and a minimum
StepAtLeast(res, d, arg, col) ==
    Step(res, Truthy(arg) /\ HasCol(d, col),
         LAMBDA rows : HasText(rows, col),
         LAMBDA r : GeNum(r.c[col], arg.n))

\* MovieFilter.filter
MovieFilter_filter(d, a) ==
    LET s0 == Rows(d.rows)
        s1 == StepContains(s0, d, a.genre, "Genre")
        s2 == Step(s1, Truthy(a.rating) /\ HasCol(d, "MPAA Rating"),
                   LAMBDA rows : FALSE,
                   LAMBDA r : EqText(r.c["MPAA Rating"], Upper(a.rating.s)))
        s3 == Step(s2, Truthy(a.year) /\ HasCol(d, "year"),
                   LAMBDA rows : FALSE,
                   LAMBDA r : EqNum(r.c["year"], a.year.n))
        s4 == Step(s3, Truthy(a.year_start) /\ Truthy(a.year_end) /\ HasCol(d, "year"),
                   LAMBDA rows : FALSE,
                   LAMBDA r : GeNum(r.c["year"], a.year_start.n)
                              /\ r.c["year"].n <= a.year_end.n)
        s5 == StepContains(s4, d, a.director, "director")
        s6 == StepContains(s5, d, a.star, "star")
        s7 == StepContains(s6, d, a.country, "country")
        s8 == StepContains(s7, d, a.company, "Company")
        s9 == StepAtLeast(s8, d, a.min_score, "score")
        s10 == StepAtLeast(s9, d, a.min_gross, "Total Gross")
        s11 == StepAtLeast(s10, d, a.min_votes, "votes")
    IN  s11

\* ------------------------------------------- main(): the filter arguments

\* text.split(sep): the pieces of text between the separators
RECURSIVE Split(_, _)
Split(s, sep) ==
    IF \A i \in DOMAIN s : s[i] # sep THEN <<s>>
    ELSE LET i == CHOOSE j \in DOMAIN s : s[j] = sep /\ \A h \in 1..(j - 1) : s[h] # sep
         IN  <<SubSeq(s, 1, i - 1)>> \o Split(SubSeq(s, i + 1, Len(s)), sep)

\* int(text) raises ValueError unless text is a decimal number
IntOk(t) == AllDigits(t)

\* datadasher.py main(): --years is one year, or a range split on '-'; the
\* result is [ok, year, year_start, year_end], ok FALSE where int() raises.
ParseYears(years) ==
    IF ~Truthy(years) THEN [ok |-> TRUE, year |-> None, year_start |-> None, year_end |-> None]
    ELSE IF Contains(years.s, <<"-">>)
    THEN LET parts == Split(years.s, "-")
         IN  IF IntOk(parts[1]) /\ IntOk(parts[2])
             THEN [ok |-> TRUE, year |-> None,
                   year_start |-> Num(ParseNat(parts[1])), year_end |-> Num(ParseNat(parts[2]))]
             ELSE [ok |-> FALSE]
    ELSE IF IntOk(years.s)
         THEN [ok |-> TRUE, year |-> Num(ParseNat(years.s)), year_start |-> None, year_end |-> None]
         ELSE [ok |-> FALSE]

\* datascrapper.py main(): --year-range; a single year is a range of one year
ParseYearRange(range) ==
    IF ~Truthy(range) THEN [ok |-> TRUE, year_start |-> None, year_end |-> None]
    ELSE LET parts == Split(range.s, "-")
         IN  IF IntOk(parts[1]) /\ (Len(parts) > 1 => IntOk(parts[2]))
             THEN [ok |-> TRUE,
                   year_start |-> Num(ParseNat(parts[1])),
                   year_end |-> IF Len(parts) > 1 THEN Num(ParseNat(parts[2]))
                                ELSE Num(ParseNat(parts[1]))]
             ELSE [ok |-> FALSE]

\* args.min_gross * 1_000_000 if args.min_gross else None
ScaledMinGross(min_gross) ==
    IF Truthy(min_gross) THEN Num(Threshold(min_gross.n)) ELSE None

\* -------------------------------------------------------------- sorting

\* The characters of the data in code point order.
AsciiChars ==
    <<" ", "$", "(", ")", ",", "-", ".", "/">> \o DigitChars \o UpperChars \o LowerChars

Ord(c) == IndexOf(AsciiChars, c)

\* a < b for two texts: code point order, a proper prefix first
RECURSIVE TextLess(_, _)
TextLess(a, b) ==
    IF Len(b) = 0 THEN FALSE
    ELSE IF Len(a) = 0 THEN TRUE
    ELSE IF a[1] = b[1] THEN TextLess(Tail(a), Tail(b))
    ELSE Ord(a[1]) < Ord(b[1])

\* a < b for two cells of one kind that are not missing
CellLess(a, b) ==
    CASE a.k = "num" -> a.n < b.n
      [] a.k = "str" -> TextLess(a.s, b.s)
      [] a.k = "date" -> \/ a.y < b.y
                         \/ a.y = b.y /\ a.m < b.m
                         \/ a.y = b.y /\ a.m = b.m /\ a.d < b.d

Perms(n) == {p \in [1..n -> 1..n] : \A i, j \in 1..n : i # j => p[i] # p[j]}

\* rows in the order p: some permutation of its positions
Permuted(rows, p) == [i \in DOMAIN rows |-> rows[p[i]]]

\* The order is by key, ascending or descending, with missing keys last
\* (na_position='last') in their original order.
Ordered(rows, col, ascending, p) ==
    \A i, j \in DOMAIN rows :
        i < j =>
          LET a == rows[p[i]].c[col]
              b == rows[p[j]].c[col]
          IN  /\ IsNaN(a) => IsNaN(b) /\ p[i] < p[j]
              /\ ~IsNaN(a) /\ ~IsNaN(b) =>
                    IF ascending THEN ~CellLess(b, a) ELSE ~CellLess(a, b)

\* a stable order: records with equal keys stay in their original order
KeepsTies(rows, col, p) ==
    \A i, j \in DOMAIN rows :
        (i < j /\ rows[p[i]].c[col] = rows[p[j]].c[col]) => p[i] < p[j]

StableOrders(rows, col, ascending) ==
    {p \in Perms(Len(rows)) : Ordered(rows, col, ascending, p) /\ KeepsTies(rows, col, p)}

\* DataFrame.sort_values(col, ascending=ascending): kind is left at its default,
\* 'quicksort', which is not stable, so records with equal keys come out in any
\* order; the result is one of these orders.
SortOrders(rows, col, ascending) ==
    {p \in Perms(Len(rows)) : Ordered(rows, col, ascending, p)}

\* sorting text against numbers raises TypeError
MixedKeys(rows, col) ==
    \E i, j \in DOMAIN rows :
        /\ ~IsNaN(rows[i].c[col]) /\ ~IsNaN(rows[j].c[col])
        /\ rows[i].c[col].k # rows[j].c[col].k

\* sort_columns.get(sort_by.lower(), 'Total Gross'); 'year' sorts by the date
DBSortColumn(sort_by) ==
    CASE sort_by = "gross" -> "Total Gross"
      [] sort_by = "inflation" -> "Inflation Adjusted Gross"
      [] sort_by = "date" -> "Date Released"
      [] sort_by = "title" -> "Movie Title"
      [] sort_by = "year" -> "Date Released"
      [] OTHER -> "Total Gross"

\* sort_map.get(by.lower(), 'Total Gross')
MFSortColumn(by) ==
    CASE by = "name" -> "Movie Title"
      [] by = "year" -> "year"
      [] by = "rating" -> "MPAA Rating"
      [] by = "gross" -> "Total Gross"
      [] by = "budget" -> "budget"
      [] by = "votes" -> "votes"
      [] by = "released" -> "Date Released"
      [] OTHER -> "Total Gross"

\* -------------------------------------------------------------- display

\* f"{n:,}": the digits in groups of three, from the right
RECURSIVE Grouped(_)
Grouped(digits) ==
    IF Len(digits) <= 3 THEN digits
    ELSE Grouped(SubSeq(digits, 1, Len(digits) - 3)) \o <<",">>
         \o SubSeq(digits, Len(digits) - 2, Len(digits))

TNan == <<"n", "a", "n">>

\* f"${x:,.0f}"
Dollars(c) == IF IsNaN(c) THEN <<"$">> \o TNan ELSE <<"$">> \o Grouped(NatStr(c.n))

\* f"{int(x):,}" if pd.notna(x) and x != '' else 'N/A'
CommasOrNA(c) == IF IsNaN(c) THEN NAText ELSE Grouped(NatStr(c.n))

\* str(int(x)) if pd.notna(x) and x != '' else ''
IntOrEmpty(c) == IF IsNaN(c) THEN <<>> ELSE NatStr(c.n)

\* .dt.strftime('%d/%m/%Y') of one cell
DateCell(c) == IF IsNaN(c) THEN NaN ELSE Str(Strftime(c.d, c.m, c.y))

\* data.head(n) for n >= 0
head(rows, n) == SubSeq(rows, 1, IF n < Len(rows) THEN n ELSE Len(rows))

\* The text of a cell as to_csv and print write it: a missing value is written
\* as nothing by to_csv, and a float64 column prints its numbers with ".0".
CsvText(c) == IF IsNaN(c) THEN <<>> ELSE IF c.k = "num" THEN NatStr(c.n) ELSE c.s

\* len(col) of a column label
LabelLen(col) ==
    CASE col = "Movie Title" -> 11
      [] col = "year" -> 4
      [] col = "Date Released" -> 13
      [] col = "MPAA Rating" -> 11
      [] col = "Genre" -> 5
      [] col = "Season" -> 6
      [] col = "Total Gross" -> 11
      [] col = "Company" -> 7
      [] col = "Inflation Adjusted Gross" -> 24

RECURSIVE SumSeq(_)
SumSeq(ns) == IF Len(ns) = 0 THEN 0 ELSE Head(ns) + SumSeq(Tail(ns))

Larger(a, b) == IF a < b THEN b ELSE a
Smaller(a, b) == IF a < b THEN a ELSE b

\* the length of f"{text:<{width}}" and of f"{text:>{width}}"
Padded(n, width) == Larger(n, width)

\* A printed line: what it is and how many characters it has.
Line(kind, n) == [kind |-> kind, len |-> n]

\* str(value) of a cell of a column, a missing value written as `missing`: a
\* number of a float64 column prints with ".0"
CellStr(d, col, c, missing) ==
    IF IsNaN(c) THEN missing
    ELSE IF c.k = "str" THEN c.s
    ELSE NatStr(c.n) \o (IF d.dt[col] = "float64" THEN <<".", "0">> ELSE <<>>)

\* one field of to_csv: quoted when it holds the delimiter
CsvFieldLen(t) == Len(t) + (IF \E i \in DOMAIN t : t[i] = "," THEN 2 ELSE 0)

\* print(df.to_csv(index=False)): the header line, one line for each row and
\* the empty line print adds after the text's final newline
CsvLines(d, cols, rows) ==
    <<Line("csvheader", SumSeq([k \in DOMAIN cols |-> LabelLen(cols[k])]) + Len(cols) - 1)>>
    \o [i \in DOMAIN rows |->
          Line("csvrow",
               SumSeq([k \in DOMAIN cols |->
                         CsvFieldLen(CellStr(d, cols[k], rows[i][cols[k]], <<>>))])
               + Len(cols) - 1)]
    \o <<Line("blank", 0)>>

AlwaysRecords(rows) == FALSE

\* len(data) == 0
NoRecords(rows) == Len(rows) = 0

\* print("\u274c No movies found"); return
Notice ==
    [ok |-> TRUE, mode |-> "notice", header |-> <<>>, rows |-> <<>>,
     lines |-> <<Line("notice", 17)>>]

\* f"FOUND {len(data)} MOVIES" + (f" (showing top {limit})" if limit else "")
SummaryLen(n, limit) ==
    13 + Len(NatStr(n)) + (IF limit # 0 THEN 15 + Len(NatStr(limit)) ELSE 0)

\* the longest text of a column among rows whose cells of it are all text
MaxLen(texts) ==
    CHOOSE n \in {Len(texts[i]) : i \in DOMAIN texts} :
        \A i \in DOMAIN texts : Len(texts[i]) <= n

DBDisplayCols == <<"Movie Title", "Date Released", "Genre", "Season", "MPAA Rating",
                   "Total Gross", "Inflation Adjusted Gross">>

\* The columns missing from a frame among those an operation selects by name.
MissingCols(d, cols) == Range(cols) \ Range(d.cols)

\* display_df of MovieDB.display, before the limit: the seven columns, the date
\* as text and the two amounts formatted
DBDisplayRow(r) ==
    [col \in Range(DBDisplayCols) |->
        CASE col = "Date Released" -> DateCell(r.c[col])
          [] col = "Total Gross" -> Str(Dollars(r.c[col]))
          [] col = "Inflation Adjusted Gross" -> Str(Dollars(r.c[col]))
          [] OTHER -> r.c[col]]

\* a format code of a float applied to text raises ValueError
DBDisplayRaises(d, rows) ==
    \/ MissingCols(d, DBDisplayCols) # {}
    \/ HasText(rows, "Total Gross")
    \/ HasText(rows, "Inflation Adjusted Gross")

\* "="*140
FrameLen == 140

title_min == 25
genre_min == 15
date_width == 12
season_width == 8
rating_width == 6
gross_width == 18
inflation_width == 22

\* what the rule adds to the summed widths
RuleExtra == 10

\* The table columns in the order of the header line, each with its label.
DBTableCols == <<"Movie Title", "Date Released", "Season", "Genre", "MPAA Rating",
                 "Total Gross", "Inflation Adjusted Gross">>

DBTableLabelLen == <<5, 4, 6, 5, 6, 11, 13>>

\* The table of MovieDB.display needs text in every title and genre it shows:
\* .str of a column that is not text raises AttributeError, the longest length
\* of a column with no text at all is NaN, which is no field width (ValueError),
\* and slicing a missing value raises TypeError.
DBTableRaises(shown) ==
    \E i \in DOMAIN shown :
        shown[i]["Movie Title"].k # "str" \/ shown[i]["Genre"].k # "str"

\* title_width, date_width, season_width, genre_width, rating_width,
\* gross_width, inflation_width, in the order of the header line
DBWidths(shown) ==
    << Larger(MaxLen([i \in DOMAIN shown |-> shown[i]["Movie Title"].s]), title_min),
       date_width,
       season_width,
       Larger(MaxLen([i \in DOMAIN shown |-> shown[i]["Genre"].s]), genre_min),
       rating_width,
       gross_width,
       inflation_width >>

\* the fields of a line, each padded to its width, joined by single spaces
DBLineLen(lens, widths) ==
    SumSeq([k \in DOMAIN widths |-> Padded(lens[k], widths[k])]) + Len(widths) - 1

\* "-" * (title_width + genre_width + ... + inflation_width + 10)
DBRuleLen(widths) == SumSeq(widths) + RuleExtra

\* one row of the table: title and genre cut to their width less two
DBRowLen(d, r, widths) ==
    DBLineLen([k \in DOMAIN widths |->
                 LET col == DBTableCols[k]
                     n == Len(CellStr(d, col, r[col], TNan))
                 IN  IF col \in {"Movie Title", "Genre"}
                     THEN Smaller(n, widths[k] - 2) ELSE n],
              widths)

\* The lines of the table, from the opening frame to the closing one.
DBTableLines(d, total, shown, limit) ==
    LET widths == DBWidths(shown)
    IN  << Line("blank", 0), Line("frame", FrameLen),
           Line("summary", SummaryLen(total, limit)),
           Line("frame", FrameLen),
           Line("header", DBLineLen(DBTableLabelLen, widths)),
           Line("rule", DBRuleLen(widths)) >>
        \o [i \in DOMAIN shown |-> Line("row", DBRowLen(d, shown[i], widths))]
        \o <<Line("frame", FrameLen)>>

\* What MovieDB.display prints: the notice alone; or in CSV mode the header and
\* the rows of display_df; or the table of display_df. A call that raises
\* is recorded as Raised, whatever it had printed.
MovieDB_display(d, rows, limit, format) ==
    IF NoRecords(rows) THEN Notice
    ELSE IF DBDisplayRaises(d, rows) THEN Raised
    ELSE LET all == [i \in DOMAIN rows |-> DBDisplayRow(rows[i])]
             shown == IF limit # 0 THEN head(all, limit) ELSE all
         IN  IF format = "csv"
             THEN [ok |-> TRUE, mode |-> "csv", header |-> DBDisplayCols, rows |-> shown,
                   lines |-> CsvLines(d, DBDisplayCols, shown)]
             ELSE IF DBTableRaises(shown) THEN Raised
             ELSE [ok |-> TRUE, mode |-> "table", header |-> DBDisplayCols, rows |-> shown,
                   lines |-> DBTableLines(d, Len(rows), shown, limit),
                   widths |-> DBWidths(shown), gap |-> 1]

MFDisplayCols == <<"Movie Title", "year", "Date Released", "MPAA Rating", "Genre",
                   "Total Gross", "Company">>

MFCsvCols == <<"Movie Title", "Date Released", "Genre", "MPAA Rating", "Total Gross">>

Inflation == "Inflation Adjusted Gross"

\* the column order of final_df
MFFinalCols == MFCsvCols \o <<Inflation>>

InflationFromGross(r) == Str(IntOrEmpty(r.c["Total Gross"]))

\* csv_df['Inflation Adjusted Gross'] = '0'
InflationValue(r) == Str(<<"0">>)

\* one row of final_df: the amount as a bare integer and the placeholder column
MFCsvRow(r) ==
    [col \in Range(MFFinalCols) |->
        CASE col = "Total Gross" -> Str(IntOrEmpty(r.c[col]))
          [] col = Inflation -> InflationValue(r)
          [] OTHER -> r.c[col]]

\* final_df of display (CSV mode) and of save_to_csv: selecting the six columns
\* raises KeyError when the data lacks one of the first five
MFCsv(d, rows) ==
    IF MissingCols(d, MFCsvCols) # {} THEN Raised
    ELSE LET final == [i \in DOMAIN rows |-> MFCsvRow(rows[i])]
         IN  [ok |-> TRUE, mode |-> "csv", header |-> MFFinalCols, rows |-> final,
              lines |-> CsvLines(d, MFFinalCols, final)]

\* display_df of MovieFilter.display: the display columns the data has
MFDisplayRow(d, r) ==
    [col \in Range(MFDisplayCols) \cap Range(d.cols) |->
        IF col = "Total Gross" THEN Str(CommasOrNA(r.c[col])) ELSE r.c[col]]

\* "="*130 and "-"*130
MFFrameLen == 130

\* min(max_len + 2, 25)
MFWidthPad == 2
MFWidthCap == 25

\* col_widths[col] for each available column: the longest astype(str) text of
\* the rows shown or the label, plus two, capped
MFWidths(d, cols, shown) ==
    [k \in DOMAIN cols |->
       Smaller(Larger(MaxLen([i \in DOMAIN shown |->
                                CellStr(d, cols[k], shown[i][cols[k]], TNan)]),
                      LabelLen(cols[k])) + MFWidthPad,
               MFWidthCap)]

\* "  ".join of fields padded to their widths
MFLineLen(lens, widths) ==
    SumSeq([k \in DOMAIN widths |-> Padded(lens[k], widths[k])]) + 2 * (Len(widths) - 1)

\* one row of the table: each text cut to its width less two
MFRowLen(d, cols, r, widths) ==
    MFLineLen([k \in DOMAIN widths |->
                 Smaller(Len(CellStr(d, cols[k], r[cols[k]], TNan)), widths[k] - 2)],
              widths)

\* The lines of the table, from the opening frame to the closing one.
MFTableLines(d, cols, total, shown, limit) ==
    LET widths == MFWidths(d, cols, shown)
    IN  << Line("blank", 0), Line("frame", MFFrameLen),
           Line("summary", 4 + SummaryLen(total, limit)),
           Line("frame", MFFrameLen),
           Line("header", MFLineLen([k \in DOMAIN cols |-> LabelLen(cols[k])], widths)),
           Line("rule", MFFrameLen) >>
        \o [i \in DOMAIN shown |-> Line("row", MFRowLen(d, cols, shown[i], widths))]
        \o <<Line("frame", MFFrameLen)>>

\* What MovieFilter.display prints.
MovieFilter_display(d, rows, limit, format) ==
    IF NoRecords(rows) THEN Notice
    ELSE IF format = "csv" THEN MFCsv(d, rows)
    ELSE LET cols == SelectSeq(MFDisplayCols, LAMBDA c : HasCol(d, c))
             shown == [i \in DOMAIN head(rows, limit) |-> MFDisplayRow(d, rows[i])]
         IN  [ok |-> TRUE, mode |-> "table", header |-> cols, rows |-> shown,
              lines |-> MFTableLines(d, cols, Len(rows), shown, limit),
              widths |-> MFWidths(d, cols, shown), gap |-> 2]

\* What MovieFilter.save_to_csv writes to the file.
MovieFilter_save_to_csv(d, rows) ==
    IF Len(rows) = 0 THEN [ok |-> TRUE, mode |-> "notice", header |-> <<>>, rows |-> <<>>]
    ELSE MFCsv(d, rows)

\* ------------------------------------------------------------ the files

MaxRows == 2

TAlpha == <<"A", "l", "p", "h", "a">>
TMu == <<"M", "u">>
TZeta == <<"Z", "e", "t", "a">>
TBeta == <<"B", "e", "t", "a">>
TEta == <<"E", "t", "a">>
TComedy == <<"C", "o", "m", "e", "d", "y">>
TAction == <<"A", "c", "t", "i", "o", "n", ",", " ", "A", "d", "v", "e", "n", "t", "u", "r", "e">>
TDisney == <<"D", "i", "s", "n", "e", "y">>
TPG == <<"P", "G">>
TG == <<"G">>
TPG13 == <<"P", "G", "-", "1", "3">>
TR == <<"R">>
TNC17 == <<"N", "C", "-", "1", "7">>
TUnknown == <<"U", "n", "k", "n", "o", "w", "n">>
TPGLower == <<"p", "g">>
DJune13 == <<"J", "u", "n", "e", " ", "1", "3", ",", " ", "1", "9", "8", "0">>
DJune25US == <<"J", "u", "n", "e", " ", "2", "5", ",", " ", "1", "9", "9", "9", " ",
               "(", "U", "n", "i", "t", "e", "d", " ", "S", "t", "a", "t", "e", "s", ")">>
DTBA == <<"T", "B", "A">>
GBad == <<"1", "2", "x">>

DBCols == <<"Movie Title", "Date Released", "Genre", "MPAA Rating", "Total Gross",
            "Inflation Adjusted Gross">>

DBRow(title, date, genre, rating, gross, inflation) ==
    ("Movie Title" :> title) @@ ("Date Released" :> date) @@ ("Genre" :> genre) @@
    ("MPAA Rating" :> rating) @@ ("Total Gross" :> gross) @@
    ("Inflation Adjusted Gross" :> inflation)

\* Records of the curated dataset: the three dates and the three grosses of the
\* end-to-end scenarios, a record with every optional value missing, and a
\* record that ties with the first on date, rating and gross.
DBPool ==
    { DBRow(TAlpha, DateText("dmy", 25, 6, 1999), TComedy, TPG, NatStr(100000000), NatStr(150000000)),
      DBRow(TMu, DateText("dmy", 15, 12, 1994), TAction, TG, NatStr(99999999), NatStr(150000000)),
      DBRow(TZeta, DateText("dmy", 1, 1, 2005), TComedy, TPGLower, NatStr(100000001), NatStr(120000000)),
      DBRow(TBeta, <<>>, <<>>, <<>>, <<>>, <<>>),
      DBRow(TEta, DateText("dmy", 25, 6, 1999), TAction, TPG, NatStr(100000000), NatStr(150000000)) }

DBFirst == DBRow(TAlpha, DateText("dmy", 25, 6, 1999), TComedy, TPG, NatStr(100000000), NatStr(150000000))

MFCols == <<"name", "rating", "genre", "year", "released", "score", "votes", "director",
            "star", "country", "budget", "gross", "company">>

MFRow(name, rating, genre, year, released, gross) ==
    ("name" :> name) @@ ("rating" :> rating) @@ ("genre" :> genre) @@ ("year" :> year) @@
    ("released" :> released) @@ ("score" :> <<"8">>) @@ ("votes" :> NatStr(900)) @@
    ("director" :> TEta) @@ ("star" :> TMu) @@ ("country" :> TZeta) @@
    ("budget" :> NatStr(5000)) @@ ("gross" :> gross) @@ ("company" :> TDisney)

\* The same records in the broader dataset's layout and date shapes.
MFPool ==
    { MFRow(TAlpha, TPG, TComedy, NatStr(1999), DJune25US, NatStr(100000000)),
      MFRow(TMu, TUnknown, TAction, NatStr(1994), DateText("dmy", 15, 12, 1994), NatStr(99999999)),
      MFRow(TZeta, TPGLower, TComedy, NatStr(2005), DateText("iso", 1, 1, 2005), NatStr(100000001)),
      MFRow(TBeta, <<>>, <<>>, <<>>, <<>>, <<>>),
      MFRow(TEta, TPG, TAction, NatStr(1999), DateText("mdy", 25, 6, 1999), NatStr(100000000)) }

MFFirst == MFRow(TAlpha, TPG, TComedy, NatStr(1999), DJune25US, NatStr(100000000))

SeqsUpTo(S, n) == UNION {[1..k -> S] : k \in 0..n}

Table(cols, rows) == [status |-> "ok", cols |-> cols, rows |-> rows]

\* cols without the columns of a set
Without(cols, gone) == SelectSeq(cols, LAMBDA c : c \notin gone)

\* a file that lacks some columns: each row keeps only the columns present
Lacking(cols, rows, gone) ==
    Table(Without(cols, gone),
          [i \in DOMAIN rows |-> [c \in Range(cols) \ gone |-> rows[i][c]]])

NoFile == [status |-> "missing", cols |-> <<>>, rows |-> <<>>]
Garbled == [status |-> "garbled", cols |-> <<>>, rows |-> <<>>]

\* Files with a malformed value in one record, and files that lack a column.
DBSpecialFiles ==
    { Table(DBCols, <<DBFirst, DBRow(TMu, DJune13, TAction, TG, NatStr(99999999), NatStr(5))>>),
      Table(DBCols, <<DBFirst, DBRow(TMu, DateText("dmy", 31, 2, 1999), TAction, TG, NatStr(99999999), NatStr(5))>>),
      Table(DBCols, <<DBFirst, DBRow(TMu, DateText("dmy", 15, 12, 1994), TAction, TG, GBad, NatStr(5))>>),
      Lacking(DBCols, <<DBFirst>>, {"Date Released"}),
      Lacking(DBCols, <<DBFirst>>, {"Genre"}),
      Lacking(DBCols, <<DBFirst>>, {"Inflation Adjusted Gross"}) }

MFSpecialFiles ==
    { Table(MFCols, <<MFFirst, MFRow(TMu, TR, TAction, <<"x">>, DTBA, GBad)>>),
      Table(MFCols, <<MFRow(TMu, TR, TAction, NatStr(1994), DateText("dmy", 31, 2, 1999), NatStr(7))>>),
      Lacking(MFCols, <<MFFirst>>, {"released"}),
      Lacking(MFCols, <<MFFirst>>, {"year", "gross"}),
      Lacking(MFCols, <<MFFirst>>, {"genre", "rating"}) }

\* One record for each month of the year.
DBMonthFiles ==
    {Table(DBCols, <<DBRow(TMu, DateText("dmy", 15, m, 1999), TAction, TG, NatStr(99999999),
                           NatStr(150000000))>>) : m \in 1..12}

DBFiles ==
    {Table(DBCols, rows) : rows \in SeqsUpTo(DBPool, MaxRows)}
    \cup DBSpecialFiles \cup DBMonthFiles \cup {NoFile, Garbled}

MFFiles ==
    {Table(MFCols, rows) : rows \in SeqsUpTo(MFPool, MaxRows)}
    \cup MFSpecialFiles \cup {NoFile, Garbled}

\* ------------------------------------------------------------ the state

Init ==
    /\ pc = "start"
    /\ variant = "none"
    /\ file = None
    /\ df = None
    /\ args = None
    /\ view = <<>>
    /\ sortArgs = None
    /\ sorted = <<>>
    /\ out = None
    /\ saved = None
    /\ exitCode = 0
    /\ diag = "none"
    /\ firstArgs = None
    /\ firstView = None
    /\ dateIn = None
    /\ dateOut = None

\* ------------------------------------- format_date on its own (SpecDate)

DateShapes == {"B", "b", "dmy", "mdy", "iso", "dot"}
DateDays == {5, 13, 31}
DateMonths == {2, 6, 12}
DateYears == {1999, 2000}

DateInputs ==
    {NaN, Str(NAText), Num(1999), Str(<<"1", "9", "9", "9", " ", "(", "U", "S">>)}
    \cup {Str(DateText(sh, d, m, y)) :
            sh \in DateShapes, d \in DateDays, m \in DateMonths, y \in DateYears}
    \cup {Str(DateText(sh, d, m, y) \o Country) :
            sh \in DateShapes, d \in DateDays, m \in DateMonths, y \in DateYears}

InitDate ==
    /\ Init!1 /\ Init!2 /\ Init!3 /\ Init!4 /\ Init!5 /\ Init!6 /\ Init!7 /\ Init!8
    /\ Init!9 /\ Init!10 /\ Init!11 /\ Init!12 /\ Init!13 /\ Init!14
    /\ dateIn \in DateInputs
    /\ dateOut = None

\* one call of MovieFilter.format_date
FormatDateCall ==
    /\ pc = "start"
    /\ dateIn # None
    /\ dateOut' = format_date(dateIn)
    /\ pc' = "done"
    /\ UNCHANGED <<variant, file, df, args, view, sortArgs, sorted, out, saved,
                   exitCode, diag, firstArgs, firstView, dateIn>>

NextDate == FormatDateCall

SpecDate == InitDate /\ [][NextDate]_vars

\* ------------------------------------------------------------- loading

\* sys.exit(1) out of a constructor, or an exception nobody catches
Exit(message) ==
    /\ pc' = "exited"
    /\ exitCode' = 1
    /\ diag' = message

\* db = MovieDB(args.file)
LoadDB ==
    /\ pc = "start"
    /\ dateIn = None
    /\ \E f \in DBFiles :
         LET r == MovieDBInit(f)
         IN  /\ file' = f
             /\ variant' = "MovieDB"
             /\ IF r.ok
                THEN /\ df' = r.df
                     /\ pc' = "loaded"
                     /\ diag' = "loaded"
                     /\ UNCHANGED exitCode
                ELSE /\ Exit(r.diag)
                     /\ UNCHANGED df
    /\ UNCHANGED <<args, view, sortArgs, sorted, out, saved, firstArgs, firstView,
                   dateIn, dateOut>>

\* filter_tool = MovieFilter(args.file)
LoadMF ==
    /\ pc = "start"
    /\ dateIn = None
    /\ \E f \in MFFiles :
         LET r == MovieFilterInit(f)
         IN  /\ file' = f
             /\ variant' = "MovieFilter"
             /\ IF r.ok
                THEN /\ df' = r.df
                     /\ pc' = "loaded"
                     /\ diag' = "loaded"
                     /\ UNCHANGED exitCode
                ELSE /\ Exit(r.diag)
                     /\ UNCHANGED df
    /\ UNCHANGED <<args, view, sortArgs, sorted, out, saved, firstArgs, firstView,
                   dateIn, dateOut>>

\* ------------------------------------------------------------ filtering

PatCom == <<"c", "o", "m">>
PatEta == <<"e", "t", "a">>
PatDis == <<"D", "I", "S">>
YR9499 == <<"1", "9", "9", "4", "-", "1", "9", "9", "9">>
YR099 == <<"0", "-", "1", "9", "9", "9">>
YR99 == <<"1", "9", "9", "9">>
YRBad == <<"1", "9", "9", "4", "-", "x">>

DBCli(genre, season, years, rating, min_gross) ==
    [genre |-> genre, season |-> season, years |-> years, rating |-> rating,
     min_gross |-> min_gross]

\* Command lines of datadasher.py: every combination of these option values.
DBArgs ==
    {DBCli(g, s, y, r, m) :
        g \in {None, Str(PatCom)},
        s \in {None, Str(TSummer)},
        y \in {None, Str(YR9499), Str(YR099), Str(YR99), Str(YRBad)},
        r \in {None, Str(TPG), Str(TG)},
        m \in {None, Num(0), Num(100)}}

\* A few of them, for the runs that go on to sort and display.
DBFewArgs ==
    { DBCli(None, None, None, None, None),
      DBCli(Str(PatCom), None, None, None, None),
      DBCli(None, Str(TSummer), None, None, None),
      DBCli(None, None, Str(YR9499), None, None),
      DBCli(None, None, None, Str(TPG), None),
      DBCli(None, None, None, None, Num(100)),
      DBCli(None, None, Str(YR99), None, Num(100)),
      DBCli(None, None, Str(YRBad), None, None) }

MFCli(genre, rating, year, year_range, min_gross, director, company, star, country, min_score, min_votes) ==
    [genre |-> genre, rating |-> rating, year |-> year, year_range |-> year_range,
     min_gross |-> min_gross, director |-> director, company |-> company, star |-> star,
     country |-> country, min_score |-> min_score, min_votes |-> min_votes]

\* Command lines of datascrapper.py: every combination of the options the two
\* tools share, with three settings of the remaining ones.
MFArgs ==
    {MFCli(g, r, y, yr, m, x[1], x[2], x[3], x[4], x[5], x[6]) :
        g \in {None, Str(PatCom)},
        r \in {None, Str(TPG), Str(TUnknown)},
        y \in {None, Num(1999)},
        yr \in {None, Str(YR9499), Str(YR099), Str(YR99)},
        m \in {None, Num(0), Num(100)},
        x \in { <<None, None, None, None, None, None>>,
                <<Str(PatEta), Str(PatDis), None, None, None, None>>,
                <<None, None, Str(TMu), Str(TZeta), Num(8), Num(901)>> }}

MFFewArgs ==
    { MFCli(None, None, None, None, None, None, None, None, None, None, None),
      MFCli(Str(PatCom), None, None, None, None, None, None, None, None, None, None),
      MFCli(None, Str(TPG), None, None, None, None, None, None, None, None, None),
      MFCli(None, None, Num(1999), None, None, None, None, None, None, None, None),
      MFCli(None, None, None, Str(YR9499), None, None, None, None, None, None, None),
      MFCli(None, None, None, None, Num(100), None, None, None, None, None, None),
      MFCli(None, None, None, Str(YR99), Num(100), Str(PatEta), None, None, None, None, None),
      MFCli(None, None, None, Str(YRBad), None, None, None, None, None, None, None) }

\* the keyword arguments main() passes to MovieDB.filter
DBKw(c, y) ==
    [genre |-> c.genre, season |-> c.season, year |-> y.year, year_start |-> y.year_start,
     year_end |-> y.year_end, rating |-> c.rating, min_gross |-> c.min_gross]

\* the keyword arguments main() passes to MovieFilter.filter
MFKw(c, y) ==
    [genre |-> c.genre, rating |-> c.rating, year |-> c.year, year_start |-> y.year_start,
     year_end |-> y.year_end, director |-> c.director, star |-> c.star,
     country |-> c.country, company |-> c.company, min_score |-> c.min_score,
     min_gross |-> ScaledMinGross(c.min_gross), min_votes |-> c.min_votes]

\* an exception nobody catches: the interpreter prints it and exits with 1
Crash ==
    /\ pc' = "crashed"
    /\ exitCode' = 1
    /\ diag' = "traceback"

DfNarrowed(d, res) == IF res.ok THEN [d EXCEPT !.rows = res.rows] ELSE d

\* self.df after filter(): the method works on a copy and assigns nothing to self
DfAfterFilter(d, res) == d

\* The first call's arguments and result are kept, to compare later calls with.
Remember(kw, res) ==
    /\ firstArgs' = IF firstArgs = None THEN kw ELSE firstArgs
    /\ firstView' = IF firstArgs = None THEN res ELSE firstView

\* datadasher.py main(): parse --years, then db.filter(...)
FilterDBWith(clis, pcs) ==
    /\ pc \in pcs
    /\ variant = "MovieDB"
    /\ \E c \in clis :
         LET y == ParseYears(c.years)
         IN  IF ~y.ok
             THEN /\ Crash
                  /\ args' = [cli |-> c, kw |-> None]
                  /\ UNCHANGED <<df, view, firstArgs, firstView>>
             ELSE LET kw == DBKw(c, y)
                      res == MovieDB_filter(df, kw)
                  IN  /\ args' = [cli |-> c, kw |-> kw]
                      /\ df' = DfAfterFilter(df, res)
                      /\ Remember(kw, res)
                      /\ IF res.ok
                         THEN /\ view' = res.rows
                              /\ pc' = IF pc = "loaded" THEN "filtered" ELSE "refiltered"
                              /\ UNCHANGED <<exitCode, diag>>
                         ELSE /\ Crash
                              /\ UNCHANGED view
    /\ UNCHANGED <<variant, file, sortArgs, sorted, out, saved, dateIn, dateOut>>

\* datascrapper.py main(): parse --year-range, scale --min-gross, then filter(...)
FilterMFWith(clis, pcs) ==
    /\ pc \in pcs
    /\ variant = "MovieFilter"
    /\ \E c \in clis :
         LET y == ParseYearRange(c.year_range)
         IN  IF ~y.ok
             THEN /\ Exit("invalid year range")
                  /\ args' = [cli |-> c, kw |-> None]
                  /\ UNCHANGED <<df, view, firstArgs, firstView>>
             ELSE LET kw == MFKw(c, y)
                      res == MovieFilter_filter(df, kw)
                  IN  /\ args' = [cli |-> c, kw |-> kw]
                      /\ df' = DfAfterFilter(df, res)
                      /\ Remember(kw, res)
                      /\ IF res.ok
                         THEN /\ view' = res.rows
                              /\ pc' = IF pc = "loaded" THEN "filtered" ELSE "refiltered"
                              /\ UNCHANGED <<exitCode, diag>>
                         ELSE /\ Crash
                              /\ UNCHANGED view
    /\ UNCHANGED <<variant, file, sortArgs, sorted, out, saved, dateIn, dateOut>>

\* every command line, one call
FilterAllDB == FilterDBWith(DBArgs, {"loaded"})
FilterAllMF == FilterMFWith(MFArgs, {"loaded"})

NextFilter == LoadDB \/ LoadMF \/ FilterAllDB \/ FilterAllMF

SpecFilter == Init /\ [][NextFilter]_vars

\* a few command lines, any number of calls on the same object
FilterAgainDB == FilterDBWith(DBFewArgs, {"loaded", "filtered", "refiltered"})
FilterAgainMF == FilterMFWith(MFFewArgs, {"loaded", "filtered", "refiltered"})

NextPure == LoadDB \/ LoadMF \/ FilterAgainDB \/ FilterAgainMF

SpecPure == Init /\ [][NextPure]_vars

\* -------------------------------------------------- sorting and display

\* datadasher.py main(): db.sort(filtered, sort_by=args.sort, ascending=args.asc)
SortDB ==
    /\ pc = "filtered"
    /\ variant = "MovieDB"
    /\ \E by \in {"gross", "inflation", "date", "title", "year"}, asc \in BOOLEAN :
         LET col == DBSortColumn(by)
         IN  /\ sortArgs' = [by |-> by, col |-> col, ascending |-> asc]
             /\ IF ~HasCol(df, col) \/ MixedKeys(view, col)
                THEN /\ Crash
                     /\ UNCHANGED sorted
                ELSE /\ \E p \in SortOrders(view, col, asc) : sorted' = Permuted(view, p)
                     /\ pc' = "sorted"
                     /\ UNCHANGED <<exitCode, diag>>
    /\ UNCHANGED <<variant, file, df, args, view, out, saved, firstArgs, firstView,
                   dateIn, dateOut>>

\* datascrapper.py main(): filter_tool.sort(filtered, by=args.sort, ascending=args.asc)
SortMF ==
    /\ pc = "filtered"
    /\ variant = "MovieFilter"
    /\ \E by \in {"name", "year", "rating", "gross", "budget", "votes", "released"},
          asc \in BOOLEAN :
         LET col == MFSortColumn(by)
         IN  /\ sortArgs' = [by |-> by, col |-> col, ascending |-> asc]
             /\ IF ~HasCol(df, col)
                THEN /\ sorted' = view
                     /\ pc' = "sorted"
                     /\ UNCHANGED <<exitCode, diag>>
                ELSE IF MixedKeys(view, col)
                THEN /\ Crash
                     /\ UNCHANGED sorted
                ELSE /\ \E p \in SortOrders(view, col, asc) : sorted' = Permuted(view, p)
                     /\ pc' = "sorted"
                     /\ UNCHANGED <<exitCode, diag>>
    /\ UNCHANGED <<variant, file, df, args, view, out, saved, firstArgs, firstView,
                   dateIn, dateOut>>

Limits == {1, 20}

\* datadasher.py main(): db.display(sorted_results, limit=args.limit, format=...)
DisplayDB ==
    /\ pc = "sorted"
    /\ variant = "MovieDB"
    /\ \E limit \in Limits, format \in {"table", "csv"} :
         LET res == MovieDB_display(df, sorted, limit, format)
         IN  IF res.ok
             THEN /\ out' = res
                  /\ pc' = "done"
                  /\ UNCHANGED <<exitCode, diag>>
             ELSE /\ Crash
                  /\ UNCHANGED out
    /\ UNCHANGED <<variant, file, df, args, view, sortArgs, sorted, saved, firstArgs,
                   firstView, dateIn, dateOut>>

\* datascrapper.py main(): if args.save: filter_tool.save_to_csv(sorted_results, args.save)
SaveMF ==
    /\ pc = "sorted"
    /\ variant = "MovieFilter"
    /\ LET res == MovieFilter_save_to_csv(df, sorted)
       IN  IF res.ok
           THEN /\ saved' = res
                /\ pc' = "saved"
                /\ UNCHANGED <<exitCode, diag>>
           ELSE /\ Crash
                /\ UNCHANGED saved
    /\ UNCHANGED <<variant, file, df, args, view, sortArgs, sorted, out, firstArgs,
                   firstView, dateIn, dateOut>>

\* datascrapper.py main(): if not args.save or args.csv: filter_tool.display(...)
DisplayMF ==
    /\ pc \in {"sorted", "saved"}
    /\ variant = "MovieFilter"
    /\ \E limit \in Limits, format \in {"table", "csv"} :
         /\ pc = "saved" => format = "csv"
         /\ LET res == MovieFilter_display(df, sorted, limit, format)
            IN  IF res.ok
                THEN /\ out' = res
                     /\ pc' = "done"
                     /\ UNCHANGED <<exitCode, diag>>
                ELSE /\ Crash
                     /\ UNCHANGED out
    /\ UNCHANGED <<variant, file, df, args, view, sortArgs, sorted, saved, firstArgs,
                   firstView, dateIn, dateOut>>

\* ------------------------------------------------------- main(), whole

FilterDB == FilterDBWith(DBFewArgs, {"loaded"})
FilterMF == FilterMFWith(MFFewArgs, {"loaded"})

Next ==
    \/ LoadDB
    \/ LoadMF
    \/ FilterDB
    \/ FilterMF
    \/ SortDB
    \/ SortMF
    \/ DisplayDB
    \/ SaveMF
    \/ DisplayMF

Spec == Init /\ [][Next]_vars

\* ------------------------------------------------------------ the claims

\* the position of the record with index label idx in a view
PosIn(rows, idx) == CHOOSE i \in DOMAIN rows : rows[i].idx = idx

HasSorted == pc \in {"sorted", "saved", "done"}

\* C1: sorting is stable: two records of the sorted result with equal sort-key
\* values are in the relative order they had in the view passed to sort, for
\* every view, sort key and direction of MovieDB.sort and MovieFilter.sort.
C1_SortIsStable ==
    HasSorted =>
      \A i, j \in DOMAIN sorted :
          ( /\ i < j
            /\ HasCol(df, sortArgs.col)
            /\ sorted[i].c[sortArgs.col] = sorted[j].c[sortArgs.col] )
          => PosIn(view, sorted[i].idx) < PosIn(view, sorted[j].idx)

\* the frame the constructor built from the file
LoadedFrame ==
    IF variant = "MovieDB" THEN MovieDBInit(file).df ELSE MovieFilterInit(file).df

Filtered == pc \in {"filtered", "refiltered"}

\* C2: filter is a pure function of the loaded records and the predicates: a
\* call with the predicates of the first call returns the first call's result,
\* record for record and in the same order, the result's records are records of
\* the loaded set in the loaded order, and the loaded set is left as it was.
C2_FilterIsPure ==
    Filtered =>
      /\ args.kw = firstArgs => Rows(view) = firstView
      /\ df = LoadedFrame
      /\ \A i \in DOMAIN view : view[i] = df.rows[view[i].idx + 1]
      /\ \A i, j \in DOMAIN view : i < j => view[i].idx < view[j].idx

\* C2's case: a later call repeats the first call's predicates and keeps some
\* records and drops others.
C2_Witness ==
    /\ pc = "refiltered"
    /\ args.kw = firstArgs
    /\ Len(view) > 0
    /\ Len(view) < Len(df.rows)

\* C3: loading aborts (exit code 1) only when the file does not exist or cannot
\* be parsed as delimited text: no malformed value and no missing column of a
\* file that parses makes the constructor exit.
C3_LoadAbortsOnlyOnBadFile ==
    (pc = "exited" /\ args = None) => file.status \in {"missing", "garbled"}

\* the digits of a text, in order
DigitsOf(t) == SelectSeq(t, IsDigit)

\* thousands separators and a currency prefix
IsCurrencyText(t, n) ==
    /\ Len(t) > 0 /\ t[1] = "$"
    /\ DigitsOf(t) = NatStr(n)
    /\ \A i \in 2..Len(t) : (t[i] = ",") <=> ((Len(t) - i) % 4 = 3)

\* a bare integer: digits only
IsBareInteger(t, n) == t = NatStr(n)

\* C4: display formats a present gross with a currency prefix and thousands
\* separators in table mode and as a bare integer in CSV mode, in MovieDB.display
\* and in MovieFilter.display.
C4_MoneyFormatByMode ==
    (pc = "done" /\ out.mode \in {"table", "csv"}) =>
      \A i \in DOMAIN out.rows :
          (HasCol(df, "Total Gross") /\ sorted[i].c["Total Gross"].k = "num") =>
             LET t == out.rows[i]["Total Gross"].s
                 n == sorted[i].c["Total Gross"].n
             IN  IF out.mode = "table" THEN IsCurrencyText(t, n) ELSE IsBareInteger(t, n)

\* the release year of a record: the year of its date (MovieDB), its year
\* column (MovieFilter); absent -> NaN
ReleaseYear(r) ==
    IF variant = "MovieDB"
    THEN (IF r.c["Date Released"].k = "date" THEN Num(r.c["Date Released"].y) ELSE NaN)
    ELSE (IF "year" \in DOMAIN r.c THEN r.c["year"] ELSE NaN)

InRange(r, lo, hi) ==
    ReleaseYear(r).k = "num" /\ lo <= ReleaseYear(r).n /\ ReleaseYear(r).n <= hi

RangeSupplied ==
    /\ pc = "filtered"
    /\ args.kw.year_start # None /\ args.kw.year_end # None
    /\ args.kw.year_start.n <= args.kw.year_end.n

\* every predicate but those of the set is absent from the command line
OnlySupplied(names) == \A n \in DOMAIN args.cli : n \notin names => args.cli[n] = None

InView(r) == \E i \in DOMAIN view : view[i] = r

\* C5: the year range is inclusive on both bounds: with year_start <= year_end
\* supplied, every record kept has its release year present and within
\* [year_start, year_end], and when the range is the only predicate every such
\* record of the loaded set is kept.
C5_YearRangeInclusive ==
    RangeSupplied =>
      /\ \A i \in DOMAIN view :
            InRange(view[i], args.kw.year_start.n, args.kw.year_end.n)
      /\ OnlySupplied({"years", "year_range"}) =>
            \A i \in DOMAIN df.rows :
                InRange(df.rows[i], args.kw.year_start.n, args.kw.year_end.n)
                => InView(df.rows[i])

Gross(r) == IF "Total Gross" \in DOMAIN r.c THEN r.c["Total Gross"] ELSE NaN

AtLeastMillions(r, m) == Gross(r).k = "num" /\ Gross(r).n >= m * 1000000

\* C6: the minimum gross, given in millions, is multiplied by 1,000,000 once
\* and compared inclusively: with it supplied, every record kept has its gross
\* present and >= min_gross * 1,000,000, and when it is the only predicate
\* every such record of the loaded set is kept.
C6_MinGrossInclusive ==
    (pc = "filtered" /\ args.cli.min_gross # None) =>
      /\ \A i \in DOMAIN view : AtLeastMillions(view[i], args.cli.min_gross.n)
      /\ OnlySupplied({"min_gross"}) =>
            \A i \in DOMAIN df.rows :
                AtLeastMillions(df.rows[i], args.cli.min_gross.n) => InView(df.rows[i])

Rating(r) == IF "MPAA Rating" \in DOMAIN r.c THEN r.c["MPAA Rating"] ELSE NaN

SameIgnoringCase(c, text) == c.k = "str" /\ Upper(c.s) = Upper(text)

\* C7: the rating is compared ignoring letter case: with a rating supplied,
\* every record kept has that rating up to letter case, and when the rating is
\* the only predicate every record with that rating up to letter case is kept.
C7_RatingIgnoresCase ==
    (pc = "filtered" /\ args.cli.rating # None) =>
      /\ \A i \in DOMAIN view : SameIgnoringCase(Rating(view[i]), args.cli.rating.s)
      /\ OnlySupplied({"rating"}) =>
            \A i \in DOMAIN df.rows :
                SameIgnoringCase(Rating(df.rows[i]), args.cli.rating.s)
                => InView(df.rows[i])

\* the mapping of the claim
SeasonOfMonth(m) ==
    IF m \in {12, 1, 2} THEN <<"W", "i", "n", "t", "e", "r">>
    ELSE IF m \in {3, 4, 5} THEN <<"S", "p", "r", "i", "n", "g">>
    ELSE IF m \in {6, 7, 8} THEN <<"S", "u", "m", "m", "e", "r">>
    ELSE <<"F", "a", "l", "l">>

\* C8: every record MovieDB loaded with a release date has the season of the
\* date's month (12, 1, 2 Winter; 3, 4, 5 Spring; 6, 7, 8 Summer; 9, 10, 11
\* Fall), and a record without a date has no season.
C8_SeasonOfMonth ==
    (variant = "MovieDB" /\ df # None) =>
      \A i \in DOMAIN df.rows :
          LET date == df.rows[i].c["Date Released"]
              season == df.rows[i].c["Season"]
          IN  IF IsNaN(date) THEN IsNaN(season)
              ELSE /\ date.k = "date"
                   /\ date = LET t == Strptime(file.rows[i]["Date Released"], FmtDMY)
                            IN  Date(t.d, t.m, t.y)
                   /\ season = Str(SeasonOfMonth(date.m))

\* C8's case: a loaded table with a December record and a record without date.
C8_Witness ==
    /\ variant = "MovieDB" /\ pc = "loaded"
    /\ \E i, j \in DOMAIN df.rows :
          /\ df.rows[i].c["Date Released"].k = "date"
          /\ df.rows[i].c["Date Released"].m = 12
          /\ IsNaN(df.rows[j].c["Date Released"])

\* a delimited-text export: the header ends with the inflation column, there
\* is one row for each record, and each row holds 0 in that column
ExportEndsInZero(export) ==
    /\ export.header[Len(export.header)] = "Inflation Adjusted Gross"
    /\ Len(export.rows) = Len(sorted)
    /\ \A i \in DOMAIN export.rows :
          CsvText(export.rows[i]["Inflation Adjusted Gross"]) = <<"0">>

IsExport(x) == x # None /\ x.mode = "csv"

\* C9: what MovieFilter exports as delimited text, by display in CSV mode and by
\* save_to_csv, has a header whose last column is Inflation Adjusted Gross and
\* the literal 0 in that column for every exported record.
C9_ExportInflationZero ==
    variant = "MovieFilter" =>
      /\ IsExport(out) => ExportEndsInZero(out)
      /\ IsExport(saved) => ExportEndsInZero(saved)

\* C9's case: two records saved and then displayed as CSV.
C9_Witness ==
    /\ variant = "MovieFilter" /\ pc = "done"
    /\ IsExport(out) /\ IsExport(saved)
    /\ Len(out.rows) = 2
    /\ \E i \in DOMAIN sorted : sorted[i].c["Total Gross"].k = "num"

Min(S) == CHOOSE x \in S : \A y \in S : x <= y

HasParenthetical(t) ==
    \E i, j \in DOMAIN t : i < j /\ t[i] = "(" /\ t[j] = ")"

\* C10: format_date returns "N/A" for a missing value and for "N/A"; otherwise
\* it drops every parenthetical annotation and returns, as DD/MM/YYYY, the date
\* read by the first of the formats (month name, abbreviated month name,
\* day/month/year, month/day/year, year-month-day) that reads the rest; and it
\* returns its input unchanged when no format reads it.
C10_FormatDate ==
    (pc = "done" /\ dateIn # None) =>
      IF IsNaN(dateIn) \/ dateIn = Str(<<"N", "/", "A">>) THEN dateOut = Str(<<"N", "/", "A">>)
      ELSE LET F == <<FmtMonthDayYear, FmtAbbrDayYear, FmtDMY, FmtMDY, FmtISO>>
               part == Strip(RemoveParens(CellText(dateIn), 1))
               hits == {k \in DOMAIN F : Strptime(part, F[k]).ok}
           IN  /\ ~HasParenthetical(part)
               /\ hits = {} => dateOut = dateIn
               /\ hits # {} =>
                     LET dt == Strptime(part, F[Min(hits)])
                     IN  dateOut = Str(Pad2(dt.d) \o <<"/">> \o Pad2(dt.m) \o <<"/">> \o NatStr(dt.y))
               /\ \A d \in DateDays, m \in DateMonths, y \in DateYears :
                     \A sh \in {"B", "b", "dmy", "iso"}, tail \in {<<>>, Country} :
                        (dateIn = Str(DateText(sh, d, m, y) \o tail) /\ d <= DaysInMonth(m, y))
                        => dateOut = Str(Strftime(d, m, y))
               /\ \A d \in DateDays, m \in DateMonths, y \in DateYears, tail \in {<<>>, Country} :
                     dateIn = Str(DateText("dot", d, m, y) \o tail) => dateOut = dateIn

\* C10's case: a text with an annotation that both day/month/year and
\* month/day/year read, returned as the former reads it.
C10_Witness ==
    /\ pc = "done"
    /\ dateIn = Str(DateText("dmy", 5, 6, 1999) \o Country)
    /\ dateOut = Str(DateText("dmy", 5, 6, 1999))

\* a display call on a view without records: the step from the sorted (or
\* saved) view to the end of main or to a traceback
DisplaysNothingFound ==
    /\ pc \in {"sorted", "saved"}
    /\ Len(sorted) = 0
    /\ pc' \in {"done", "crashed"}

\* C11: display of a view with zero records prints the no-results notice and
\* nothing else, and returns: no summary line, header, rule, data row or CSV
\* header, in table mode and in CSV mode, in MovieDB.display and in
\* MovieFilter.display.
C11_EmptyViewPrintsNotice ==
    [][DisplaysNothingFound =>
         /\ pc' = "done"
         /\ out'.mode = "notice"
         /\ Len(out'.lines) = 1
         /\ out'.lines[1].kind = "notice"
         /\ out'.header = <<>> /\ out'.rows = <<>>]_vars

\* C11's case: records were loaded, the predicates kept none of them, and
\* display has returned.
C11_Witness ==
    /\ pc = "done"
    /\ dateIn = None
    /\ Len(df.rows) > 0
    /\ Len(sorted) = 0
    /\ out.mode = "notice"

\* the line of a kind in what a table display printed
LineOf(x, kind) == CHOOSE l \in Range(x.lines) : l.kind = kind

\* C12: in table mode the rule under the header is as long as the summed
\* column widths plus the spacing between the columns, which is the length of
\* the header line, for every non-empty set of rows displayed by
\* MovieDB.display and by MovieFilter.display.
C12_RuleSpansHeader ==
    (pc = "done" /\ dateIn = None /\ out.mode = "table" /\ Len(out.rows) > 0) =>
      /\ LineOf(out, "rule").len
            = SumSeq(out.widths) + out.gap * (Len(out.widths) - 1)
      /\ LineOf(out, "rule").len = LineOf(out, "header").len

====
